---- MODULE Spec2Model ----
(***************************************************************************)
(* A state-machine model of microsat.c (main, lines 51-257).               *)
(*                                                                         *)
(* The program reads ms output from stdin, and for every dataset turns     *)
(* each segregating site into a +1/-1 step on one of linked_n STR loci.    *)
(* The control positions of main are the values of pc:                     *)
(*   "args"     option parsing and theta validation      (lines 68-140)    *)
(*   "loop"     the while test of the dataset loop       (line 144)        *)
(*   "boundary" the do/while that looks for a '/' line   (lines 147-152)   *)
(*   "segsites" reading the count and growing the arrays (lines 155-166)   *)
(*   "sample"   reading positions and haplotypes         (lines 169-183)   *)
(*   "init"     initialising nrep                        (lines 187-193)   *)
(*   "site"     the loop over segregating sites          (lines 198-230)   *)
(*   "done"     return(0);  "exit1"  exit(1);  "crashed" abnormal end      *)
(*                                                                         *)
(* Doubles are modelled exactly, as pairs <<t, e>> standing for            *)
(* t/10 + e * 1e-15, with |e| far below 1e14 so that the comparison is     *)
(* lexicographic.  Rounding of double addition is not modelled: a sum that *)
(* is "slightly under 1" is an input whose e components add up below 0.    *)
(*                                                                         *)
(* The input stream is drawn lazily: every read either finds the next      *)
(* well-formed field or finds the end of the stream (eof), after which     *)
(* every read fails.  The streams covered are the well-formed streams and  *)
(* their prefixes cut at a field boundary.                                 *)
(***************************************************************************)
EXTENDS Integers, Sequences, FiniteSets, TLC

VARIABLES pc, args, nsam, ms_datasets, ancstate, linked_n, im_flag, thetas,
          theta_sum, MAX_SITES, listcap, positcap, count, segsites,
          segsites_init, list, nrep, i, step, this_str, out, eof, ncalls,
          draws, sitelog, hist, err

vars == <<pc, args, nsam, ms_datasets, ancstate, linked_n, im_flag, thetas,
          theta_sum, MAX_SITES, listcap, positcap, count, segsites,
          segsites_init, list, nrep, i, step, this_str, out, eof, ncalls,
          draws, sitelog, hist, err>>

(***************************************************************************)
(* Bounds of the model.                                                    *)
(***************************************************************************)
\* sample sizes 1 .. MaxN, dataset counts 0 .. MaxD
MaxN == 2
MaxD == 2
\* the short datasets of one run hold at most MaxChars haplotype characters
\* between them (nsam characters for every site)
MaxChars == 4

(***************************************************************************)
(* Exact arithmetic on the modelled doubles.                               *)
(***************************************************************************)
Add(a, b) == <<a[1] + b[1], a[2] + b[2]>>
Sub(a, b) == <<a[1] - b[1], a[2] - b[2]>>
Gt(a, b) == \/ a[1] > b[1]
            \/ a[1] = b[1] /\ a[2] > b[2]
Lt(a, b) == Gt(b, a)

Zero == <<0, 0>>
Half == <<5, 0>>
One == <<10, 0>>

\* #define TOLERANCE 0.00000000000001   (1e-14 = 10 * 1e-15)
TOLERANCE == <<0, 10>>

\* int MAX_SITES = 1000;
MAX_SITES_INIT == 1000

(***************************************************************************)
(* Inputs.                                                                 *)
(***************************************************************************)
\* the value of the -a option
AncVals == {30}

\* the proportions given after -l: 0.4 with 0.6 moved by -1e-14, -1.1e-14
\* and +1.1e-14, sums of 0.9 and 1.1, and the three loci 0.2 0.2 0.6
ThetaLists == {<<<<4, 0>>, <<6, 0 - 10>>>>,
               <<<<4, 0>>, <<6, 0 - 11>>>>,
               <<<<4, 0>>, <<6, 11>>>>,
               <<<<4, 0>>, <<5, 0>>>>,
               <<<<6, 0>>, <<5, 0>>>>,
               <<<<2, 0>>, <<2, 0>>, <<6, 0>>>>}

\* the -l option: -l 1 with no proportions, -l l with l proportions, and
\* -l 3 with only two
LinkedArgs == {[l |-> 1, th |-> <<>>]}
              \union {[l |-> Len(th), th |-> th] : th \in ThetaLists}
              \union {[l |-> 3, th |-> <<<<4, 0>>, <<6, 0>>>>]}

\* the command line: -a a, -l l th[1] .. th[k], and -i when i = 1
ArgSet == {[a |-> a, l |-> x.l, th |-> x.th, i |-> f] :
              a \in AncVals, x \in LinkedArgs, f \in {0, 1}}

BigArgSet == {[a |-> 0, l |-> 1, th |-> <<>>, i |-> f] : f \in {0, 1}}

\* values returned by ran1(): 0.4 and 1 - 2e-15
DrawVals == {<<4, 0>>, <<10, 0 - 2>>}

\* the one draw value used with the long datasets: 0.7
BigDrawVals == {<<7, 0>>}

\* the sites that a run may still process: what is left of MaxChars after
\* the ncalls / 2 sites already processed
SitesLeft == IF MaxChars > nsam * (ncalls \div 2)
             THEN (MaxChars - nsam * (ncalls \div 2)) \div nsam ELSE 0

\* segregating-site counts of the short datasets
SmallSegsites == 0 .. SitesLeft

\* segregating-site counts of the long datasets
BigSegsites == {0, MAX_SITES_INIT, MAX_SITES_INIT + 2}

\* what an uninitialised int may hold
GarbageInts == {0 - 1, 0, 1}

\* the haplotype strings of s characters that the input may hold: for short
\* datasets the strings that repeat their second character to the end (all
\* strings of one and two characters), for long ones the all-'1' string
RowsOf(s) == IF s <= MaxChars
             THEN {r \in [1 .. s -> {"0", "1"}] : \A k \in 3 .. s : r[k] = r[2]}
             ELSE {[k \in 1 .. s |-> "1"]}

\* what a haplotype buffer may hold after a write past its end
CorruptRowsOf(s) == IF s <= MaxChars THEN RowsOf(s)
                    ELSE {[k \in 1 .. s |-> "0"]}

\* a haplotype buffer that was allocated and never written
UninitRow == <<"?">>

(***************************************************************************)
(* Pure parts of main.                                                     *)
(***************************************************************************)
\* lines 101-112: theta_sum += thetas[j] for the proportions given
RECURSIVE ThetaLoop(_, _, _)
ThetaLoop(j, sum, th) ==
    IF j >= Len(th) THEN sum
    ELSE ThetaLoop(j + 1, Add(sum, th[j + 1]), th)

\* line 113 without its second test: a sum above 1 is accepted
ThetaRejectedLowOnly(sum) == Gt(Sub(One, sum), TOLERANCE)

\* line 113: the test that rejects the proportions
ThetaRejected(sum) ==
    \/ Gt(Sub(One, sum), TOLERANCE)
    \/ Gt(Sub(sum, One), TOLERANCE)

\* line 158 with > in place of >=
MustGrowStrict(s, cap) == s > cap

\* line 158: the test that grows the arrays
MustGrow(s, cap) == s >= cap

\* lines 202-203
ChooseStep(r) == IF Lt(r, Half) THEN 0 - 1 ELSE 1

\* lines 209-220 with the last locus as the value left when no break occurs
RECURSIVE StrLoopLast(_, _, _, _, _)
StrLoopLast(j, value, random, th, n) ==
    IF j >= n THEN n - 1
    ELSE LET v == Add(value, th[j + 1])
         IN  IF Gt(random, v) THEN StrLoopLast(j + 1, v, random, th, n)
             ELSE j

\* lines 209-220 with random >= value in place of random > value
RECURSIVE StrLoopGe(_, _, _, _, _)
StrLoopGe(j, value, random, th, n) ==
    IF j >= n THEN 0
    ELSE LET v == Add(value, th[j + 1])
         IN  IF ~Gt(v, random) THEN StrLoopGe(j + 1, v, random, th, n)
             ELSE j

\* lines 209-220: this_str starts at 0 and is set only on the break
RECURSIVE StrLoop(_, _, _, _, _)
StrLoop(j, value, random, th, n) ==
    IF j >= n THEN 0
    ELSE LET v == Add(value, th[j + 1])
         IN  IF Gt(random, v) THEN StrLoop(j + 1, v, random, th, n)
             ELSE j

ChooseStr(random, th, n) == StrLoop(0, Zero, random, th, n)

\* lines 202-220 with the two values of ran1() used the other way round
SiteOutcomeSwapped(d1, d2, th, n) ==
    [step |-> ChooseStep(d2), str |-> ChooseStr(d1, th, n)]

\* lines 202-220: the first value of ran1() gives the step, the second the
\* locus
SiteOutcome(d1, d2, th, n) ==
    [step |-> ChooseStep(d1), str |-> ChooseStr(d2, th, n)]

\* lines 187-193 done for the first dataset only
FreshNrepOnce(old, n, l, anc) ==
    IF old = <<>> THEN [ind \in 0 .. n - 1 |-> [j \in 0 .. l - 1 |-> anc]]
    ELSE old

\* lines 187-193: nrep is declared afresh and filled with ancstate
FreshNrep(old, n, l, anc) == [ind \in 0 .. n - 1 |-> [j \in 0 .. l - 1 |-> anc]]

\* line 225: list[ind][idx] of a C string; the byte after the last character
\* is the terminator, the bytes after that are whatever the buffer held
CharKnown(row, idx) == row # UninitRow /\ idx <= Len(row)
CharAt(row, idx) == IF idx < Len(row) THEN row[idx + 1] ELSE "NUL"

\* lines 223-229 with the step added at every locus
AddStepEveryStr(m, carries, str, st, n, l) ==
    [ind \in 0 .. n - 1 |->
        [j \in 0 .. l - 1 |->
            IF carries[ind] THEN m[ind][j] + st ELSE m[ind][j]]]

\* lines 223-229
AddStep(m, carries, str, st, n, l) ==
    [ind \in 0 .. n - 1 |->
        [j \in 0 .. l - 1 |->
            IF j = str /\ carries[ind] THEN m[ind][j] + st ELSE m[ind][j]]]

\* one printf call: the numbers formatted by %d, then the literal text
Printf(nums, text) == [num |-> nums, end |-> text]

\* lines 235-243 with the two loops exchanged
RECURSIVE FlatLoopByIndividual(_, _, _, _, _)
FlatLoopByIndividual(a, b, m, n, l) ==
    IF b >= n THEN <<>>
    ELSE IF a >= l THEN FlatLoopByIndividual(0, b + 1, m, n, l)
    ELSE <<Printf(<<m[b][a]>>,
                  IF b = n - 1 /\ a = l - 1 THEN "\n" ELSE "\t")>>
         \o FlatLoopByIndividual(a + 1, b, m, n, l)

\* lines 235-243
RECURSIVE FlatLoop(_, _, _, _, _)
FlatLoop(a, b, m, n, l) ==
    IF a >= l THEN <<>>
    ELSE IF b >= n THEN FlatLoop(a + 1, 0, m, n, l)
    ELSE <<Printf(<<m[b][a]>>,
                  IF b = n - 1 /\ a = l - 1 THEN "\n" ELSE "\t")>>
         \o FlatLoop(a, b + 1, m, n, l)

\* lines 245-251
RECURSIVE IndLoop(_, _, _, _, _)
IndLoop(a, b, m, n, l) ==
    IF a >= n THEN <<Printf(<<>>, "//\n")>>
    ELSE IF b < l - 1
         THEN <<Printf(<<m[a][b]>>, "\t")>> \o IndLoop(a, b + 1, m, n, l)
         ELSE <<Printf(<<m[a][l - 1]>>, "\n")>> \o IndLoop(a + 1, 0, m, n, l)

\* lines 233-252
PrintBlock(m, n, l, flag) ==
    IF flag = 0 THEN FlatLoop(0, 0, m, n, l) ELSE IndLoop(0, 0, m, n, l)

(***************************************************************************)
(* Initial states: the first two input lines are read (nsam, ms_datasets), *)
(* nothing else has run.                                                   *)
(***************************************************************************)
InitWith(argset, maxd) ==
    /\ pc = "args"
    /\ args \in argset
    /\ nsam \in 1 .. MaxN
    /\ ms_datasets \in 0 .. maxd
    /\ ancstate = 0
    /\ linked_n = 1
    /\ im_flag = 0
    /\ thetas = <<>>
    /\ theta_sum = Zero
    /\ MAX_SITES = MAX_SITES_INIT
    /\ listcap = <<>>
    /\ positcap = 0
    /\ count = 0
    /\ segsites = 0
    /\ segsites_init = FALSE
    /\ list = <<>>
    /\ nrep = <<>>
    /\ i = 0
    /\ step = 0
    /\ this_str = 0
    /\ out = <<>>
    /\ eof = FALSE
    /\ ncalls = 0
    /\ draws = <<>>
    /\ sitelog = <<>>
    /\ hist = <<>>
    /\ err = ""

Init == InitWith(ArgSet, MaxD)

InitBig == InitWith(BigArgSet, MaxD)

(***************************************************************************)
(* Actions.                                                                *)
(***************************************************************************)
\* lines 68-140: options, theta validation, allocation of list and posit
ParseArgs ==
    /\ pc = "args"
    /\ ancstate' = args.a
    /\ im_flag' = args.i
    /\ linked_n' = args.l
    /\ theta_sum' = IF args.l # 1 THEN ThetaLoop(0, theta_sum, args.th)
                    ELSE theta_sum
    /\ thetas' = IF args.l = 1 THEN <<One>> ELSE args.th
    /\ IF args.l # 1 /\ Len(args.th) < args.l
       THEN /\ pc' = "exit1"
            /\ err' = "error: only j thetas for n STRs"
            /\ UNCHANGED <<listcap, positcap, list>>
       ELSE IF args.l # 1 /\ ThetaRejected(theta_sum')
       THEN /\ pc' = "exit1"
            /\ err' = "error: sum of thetas exceeds 1"
            /\ UNCHANGED <<listcap, positcap, list>>
       ELSE \/ /\ pc' = "loop"
               /\ listcap' = [ind \in 0 .. nsam - 1 |-> MAX_SITES + 1]
               /\ positcap' = MAX_SITES
               /\ list' = [ind \in 0 .. nsam - 1 |-> UninitRow]
               /\ err' = err
            \/ /\ pc' = "exit1"
               /\ err' = "error: malloc failure"
               /\ UNCHANGED <<listcap, positcap, list>>
    /\ UNCHANGED <<args, nsam, ms_datasets, MAX_SITES, count, segsites,
                   segsites_init, nrep, i, step, this_str, out, eof, ncalls,
                   draws, sitelog, hist>>

\* line 144: while( ms_datasets - count++ )
LoopTest ==
    /\ pc = "loop"
    /\ pc' = IF ms_datasets - count # 0 THEN "boundary" ELSE "done"
    /\ count' = count + 1
    /\ UNCHANGED <<args, nsam, ms_datasets, ancstate, linked_n, im_flag,
                   thetas, theta_sum, MAX_SITES, listcap, positcap, segsites,
                   segsites_init, list, nrep, i, step, this_str, out, eof,
                   ncalls, draws, sitelog, hist, err>>

\* lines 147-152: lines are skipped until one starts with '/'; the end of
\* the stream is fatal
SkipToBoundary ==
    /\ pc = "boundary"
    /\ \/ /\ ~eof
          /\ pc' = "segsites"
          /\ eof' = eof
          /\ err' = err
       \/ /\ pc' = "exit1"
          /\ eof' = TRUE
          /\ err' = "error: line retrieval fault"
    /\ UNCHANGED <<args, nsam, ms_datasets, ancstate, linked_n, im_flag,
                   thetas, theta_sum, MAX_SITES, listcap, positcap, count,
                   segsites, segsites_init, list, nrep, i, step, this_str,
                   out, ncalls, draws, sitelog, hist>>

\* lines 158-166 for the count s: MAX_SITES and posit grow; line 165 only
\* declares biggerlist, so the haplotype buffers keep their size
Grow(s) ==
    /\ segsites' = s
    /\ segsites_init' = TRUE
    /\ IF MustGrow(s, MAX_SITES)
       THEN /\ MAX_SITES' = s + 10
            /\ \/ /\ positcap' = s + 10
                  /\ pc' = "sample"
                  /\ err' = err
               \/ /\ positcap' = positcap
                  /\ pc' = "exit1"
                  /\ err' = "error: realloc failure 1 for posit"
       ELSE /\ pc' = "sample"
            /\ UNCHANGED <<MAX_SITES, positcap, err>>
    /\ listcap' = listcap

\* line 155 and lines 158-166: fscanf either stores the count it finds or,
\* at the end of the stream, leaves segsites as it was.  Cut tells whether
\* the stream may end inside a dataset; the streams covered end there only
\* if the count left in segsites is within the sites the run may process.
ReadSegsites(Segs, Cut) ==
    /\ pc = "segsites"
    /\ \/ /\ ~eof
          /\ eof' = eof
          /\ \E s \in Segs : Grow(s)
       \/ /\ Cut
          /\ eof' = TRUE
          /\ \E s \in (IF segsites_init THEN {segsites} ELSE GarbageInts) :
                s <= SitesLeft /\ Grow(s)
    /\ UNCHANGED <<args, nsam, ms_datasets, ancstate, linked_n, im_flag,
                   thetas, theta_sum, count, list, nrep, i, step, this_str,
                   out, ncalls, draws, sitelog, hist>>

\* lines 169-183: the positions word (and the annotation, if its second
\* character is 'r'), segsites positions and nsam haplotype strings; the
\* stream may end after any of them, which leaves the remaining buffers as
\* they were.  A string of segsites characters and its terminator written
\* into a smaller buffer is a write past the end of the buffer.
ReadSample(Cut) ==
    /\ pc = "sample"
    /\ IF segsites > 0
       THEN \/ /\ Cut
               /\ eof' = TRUE
               /\ list' = list
               /\ pc' = "init"
            \/ /\ ~eof
               /\ \E k \in (IF Cut THEN 1 ELSE nsam) .. nsam :
                  \E rows \in [0 .. k - 1 -> RowsOf(segsites)] :
                     /\ eof' = (k < nsam)
                     /\ IF \E ind \in 0 .. k - 1 : segsites + 1 > listcap[ind]
                        THEN \/ /\ pc' = "crashed"
                                /\ list' = list
                             \/ /\ pc' = "init"
                                /\ list' = [ind \in 0 .. nsam - 1 |->
                                              IF ind < k THEN rows[ind]
                                              ELSE list[ind]]
                             \/ /\ pc' = "init"
                                /\ \E c \in CorruptRowsOf(segsites) :
                                      list' = [ind \in 0 .. nsam - 1 |-> c]
                        ELSE /\ pc' = "init"
                             /\ list' = [ind \in 0 .. nsam - 1 |->
                                           IF ind < k THEN rows[ind]
                                           ELSE list[ind]]
       ELSE /\ pc' = "init"
            /\ UNCHANGED <<list, eof>>
    /\ UNCHANGED <<args, nsam, ms_datasets, ancstate, linked_n, im_flag,
                   thetas, theta_sum, MAX_SITES, listcap, positcap, count,
                   segsites, segsites_init, nrep, i, step, this_str, out,
                   ncalls, draws, sitelog, hist, err>>

\* lines 187-193 and the i = 0 of line 198
InitNrep ==
    /\ pc = "init"
    /\ nrep' = FreshNrep(nrep, nsam, linked_n, ancstate)
    /\ i' = 0
    /\ sitelog' = <<>>
    /\ pc' = "site"
    /\ UNCHANGED <<args, nsam, ms_datasets, ancstate, linked_n, im_flag,
                   thetas, theta_sum, MAX_SITES, listcap, positcap, count,
                   segsites, segsites_init, list, step, this_str, out, eof,
                   ncalls, draws, hist, err>>

\* lines 198-230, one iteration: two calls of ran1(), then the step is added
\* for every individual whose character at site i is '1'
MutateSite(Draws) ==
    /\ pc = "site"
    /\ i < segsites
    /\ \E d1 \in Draws, d2 \in Draws :
       \E carries \in [0 .. nsam - 1 -> BOOLEAN] :
          /\ \A ind \in 0 .. nsam - 1 :
                CharKnown(list[ind], i) =>
                    (carries[ind] <=> (CharAt(list[ind], i) = "1"))
          /\ LET o == SiteOutcome(d1, d2, thetas, linked_n)
             IN  /\ step' = o.step
                 /\ this_str' = o.str
                 /\ nrep' = AddStep(nrep, carries, o.str, o.step, nsam,
                                    linked_n)
                 /\ sitelog' = Append(sitelog,
                                      [step |-> o.step, str |-> o.str])
          /\ draws' = <<d1, d2>>
    /\ ncalls' = ncalls + 2
    /\ i' = i + 1
    /\ UNCHANGED <<pc, args, nsam, ms_datasets, ancstate, linked_n, im_flag,
                   thetas, theta_sum, MAX_SITES, listcap, positcap, count,
                   segsites, segsites_init, list, out, eof, hist, err>>

\* lines 233-254, once the loop over the sites has ended: the block is
\* printed and the body of the while loop ends, and with it the lifetime of
\* this_str (declared at line 197); the record of the sites of the dataset
\* ends with it
PrintDataset ==
    /\ pc = "site"
    /\ ~(i < segsites)
    /\ out' = out \o PrintBlock(nrep, nsam, linked_n, im_flag)
    /\ hist' = Append(hist, [segsites |-> segsites, nrep |-> nrep])
    /\ this_str' = 0
    /\ draws' = <<>>
    /\ sitelog' = <<>>
    /\ pc' = "loop"
    /\ UNCHANGED <<args, nsam, ms_datasets, ancstate, linked_n, im_flag,
                   thetas, theta_sum, MAX_SITES, listcap, positcap, count,
                   segsites, segsites_init, list, nrep, i, step, eof, ncalls,
                   err>>

Next ==
    \/ ParseArgs
    \/ LoopTest
    \/ SkipToBoundary
    \/ ReadSegsites(SmallSegsites, TRUE)
    \/ ReadSample(TRUE)
    \/ InitNrep
    \/ MutateSite(DrawVals)
    \/ PrintDataset

NextBig ==
    \/ ParseArgs
    \/ LoopTest
    \/ SkipToBoundary
    \/ ReadSegsites(BigSegsites, FALSE)
    \/ ReadSample(FALSE)
    \/ InitNrep
    \/ MutateSite(BigDrawVals)
    \/ PrintDataset

Spec == Init /\ [][Next]_vars

SpecBig == InitBig /\ [][NextBig]_vars

(***************************************************************************)
(* Definitions used to state the properties.                               *)
(***************************************************************************)
\* theta[0] + ... + theta[j]
RECURSIVE CumTheta(_)
CumTheta(j) == IF j = 0 THEN thetas[1] ELSE Add(CumTheta(j - 1), thetas[j + 1])

Loci == 0 .. linked_n - 1
Inds == 0 .. nsam - 1

\* the cumulative sum of locus j reaches the draw r
Reaches(j, r) == ~Gt(r, CumTheta(j))

\* the sum of the proportions on the command line, from the last one down
RECURSIVE ArgSum(_)
ArgSum(k) == IF k = 0 THEN Zero ELSE Add(args.th[k], ArgSum(k - 1))

\* |sum - 1| <= 1e-14
WithinTolerance(sum) ==
    /\ ~Gt(Sub(sum, One), TOLERANCE)
    /\ ~Gt(Sub(One, sum), TOLERANCE)

\* every haplotype buffer holds a string of exactly segsites characters
RowsComplete ==
    \A ind \in Inds : list[ind] # UninitRow /\ Len(list[ind]) = segsites

\* the sum of the steps of the first k logged sites that were assigned to
\* locus j and at which individual ind carries '1'
RECURSIVE StepSum(_, _, _)
StepSum(ind, j, k) ==
    IF k = 0 THEN 0
    ELSE StepSum(ind, j, k - 1)
         + (IF sitelog[k].str = j /\ list[ind][k] = "1"
            THEN sitelog[k].step ELSE 0)

\* the number of printf calls of one block, and the k-th block of out
BlockLen == IF im_flag = 0 THEN nsam * linked_n ELSE nsam * linked_n + 1
BlockOf(k) == SubSeq(out, (k - 1) * BlockLen + 1, k * BlockLen)

\* the block of the matrix m: in flat mode one line, locus after locus and
\* within a locus individual after individual; otherwise one line for each
\* individual and a last line "//"
ExpectedBlock(m) ==
    IF im_flag = 0
    THEN [p \in 1 .. nsam * linked_n |->
            [num |-> <<m[(p - 1) % nsam][(p - 1) \div nsam]>>,
             end |-> IF p = nsam * linked_n THEN "\n" ELSE "\t"]]
    ELSE [p \in 1 .. nsam * linked_n + 1 |->
            IF p = nsam * linked_n + 1 THEN [num |-> <<>>, end |-> "//\n"]
            ELSE [num |-> <<m[(p - 1) \div linked_n][(p - 1) % linked_n]>>,
                  end |-> IF p % linked_n = 0 THEN "\n" ELSE "\t"]]

\* the number of lines that a block ends
LinesOf(block) ==
    Cardinality({p \in 1 .. Len(block) : block[p].end \in {"\n", "//\n"}})

\* the sites of the datasets already printed
RECURSIVE SitesPrinted(_)
SitesPrinted(k) ==
    IF k = 0 THEN 0
    ELSE SitesPrinted(k - 1)
         + (IF hist[k].segsites > 0 THEN hist[k].segsites ELSE 0)

InDataset == pc \in {"boundary", "segsites", "sample", "init", "site"}

(***************************************************************************)
(* The properties.                                                         *)
(***************************************************************************)
\* C1: when the haplotype strings of a dataset are about to be read, every
\* haplotype buffer has a capacity of at least segsites.
C1_HaplotypeCapacity ==
    pc = "sample" => \A ind \in Inds : listcap[ind] >= segsites

\* C2: a read that finds the stream ended inside a dataset is fatal where it
\* happens: the run has ended with exit(1), and nothing is printed after it.
C2_ReadFailureFatal ==
    eof => pc = "exit1"

C5_ThetaValidation ==
    (pc # "args" /\ args.l > 1 /\ Len(args.th) = args.l)
        => IF WithinTolerance(ArgSum(args.l))
           THEN /\ err # "error: sum of thetas exceeds 1"
                /\ thetas = args.th
                /\ (pc = "exit1" => err # "")
           ELSE /\ pc = "exit1"
                /\ err = "error: sum of thetas exceeds 1"
                /\ out = <<>>
                /\ count = 0
                /\ ~eof
                /\ ~segsites_init

C5_Witness ==
    /\ pc = "exit1"
    /\ args.l > 1
    /\ Len(args.th) = args.l
    /\ Gt(ArgSum(args.l), One)
    /\ ~WithinTolerance(ArgSum(args.l))

\* C6: while and after the sites of a dataset are processed, the length of
\* individual ind at locus j is ancstate plus the steps of the processed
\* sites that were assigned to j and at which ind carries '1'.
C6_RepeatLengths ==
    (pc = "site" /\ RowsComplete)
        => \A ind \in Inds : \A j \in Loci :
              nrep[ind][j] = ancstate + StepSum(ind, j, i)

C6_Witness ==
    /\ pc = "site"
    /\ RowsComplete
    /\ segsites = 2
    /\ i = 2
    /\ linked_n > 1
    /\ sitelog[1].str # sitelog[2].str
    /\ sitelog[1].step # sitelog[2].step
    /\ \E ind \in Inds : list[ind] = <<"1", "1">>
    /\ \E ind \in Inds : list[ind] = <<"0", "1">>

\* C7: the block printed for a dataset with segsites = 0 holds ancstate for
\* every individual and locus, whatever the datasets before it were.
C7_ZeroSitesAncestral ==
    \A k \in 1 .. Len(hist) :
        hist[k].segsites = 0
            => /\ Len(out) >= k * BlockLen
               /\ \A p \in 1 .. BlockLen :
                     BlockOf(k)[p].num \in {<<>>, <<ancstate>>}

C7_Witness ==
    /\ Len(hist) = 2
    /\ ~eof
    /\ hist[1].segsites > 0
    /\ \E ind \in Inds : \E j \in Loci : hist[1].nrep[ind][j] # ancstate
    /\ hist[2].segsites = 0

\* C8: out is the blocks of the datasets processed so far, in their order,
\* each in the layout of the mode (one line in flat mode, nsam + 1 lines
\* otherwise); while dataset number count is read and processed the blocks
\* of the count - 1 datasets before it are complete, and a run that ends
\* with return(0) has printed ms_datasets blocks.
C8_OutputBlocks ==
    /\ Len(out) = Len(hist) * BlockLen
    /\ \A k \in 1 .. Len(hist) :
          /\ BlockOf(k) = ExpectedBlock(hist[k].nrep)
          /\ LinesOf(BlockOf(k)) = IF im_flag = 0 THEN 1 ELSE nsam + 1
    /\ (InDataset => Len(hist) = count - 1)
    /\ (pc = "done" => Len(hist) = ms_datasets)

C8_Witness ==
    /\ pc = "done"
    /\ ~eof
    /\ ms_datasets = 2
    /\ nsam = 2
    /\ linked_n = 2
    /\ im_flag = 0
    /\ hist[1].nrep[0][1] # hist[1].nrep[1][0]
    /\ Len(out) = 8

\* C9: ran1() has been called exactly twice for every site processed so
\* far, and at every site the first value gave the step and the second the
\* locus.
C9_TwoDrawsPerSite ==
    /\ ncalls = 2 * (SitesPrinted(Len(hist)) + (IF pc = "site" THEN i ELSE 0))
    /\ (pc = "site" /\ i > 0)
          => /\ Len(draws) = 2
             /\ step = (IF Gt(Half, draws[1]) THEN 0 - 1 ELSE 1)
             /\ \/ Reaches(this_str, draws[2])
                \/ \A j \in Loci : ~Reaches(j, draws[2])

C9_Witness ==
    /\ pc = "site"
    /\ linked_n = 1
    /\ segsites = 2
    /\ i = 2
    /\ count = 2
    /\ ncalls = 4
    /\ RowsComplete
    /\ \A ind \in Inds : list[ind] = <<"0", "0">>
    /\ draws[1] # draws[2]

\* C10: a site whose locus draw is reached by some cumulative theta sum is
\* assigned to the smallest locus whose cumulative sum is >= the draw.
C10_SmallestLocus ==
    (pc = "site" /\ i > 0 /\ \E j \in Loci : Reaches(j, draws[2]))
        => /\ Reaches(this_str, draws[2])
           /\ \A j \in Loci : j < this_str => ~Reaches(j, draws[2])

C10_Witness ==
    /\ pc = "site"
    /\ i > 0
    /\ linked_n > 1
    /\ draws[2] = CumTheta(this_str)
    /\ \E ind \in Inds : nrep[ind][this_str] # ancstate

====
